---- MODULE Spec2Model ----
(***************************************************************************)
(* HexPaste: a HexChat plugin that pastes the lines of a file, one line    *)
(* per timer tick, to the context (network/server/channel) where the       *)
(* command was typed.  The model follows Source/HexPaste.py: the targets   *)
(* registry of class HexPaste, the Message objects it creates, the timers  *)
(* those objects register with the host, and the command dispatcher.       *)
(*                                                                         *)
(* Python functions are operators on a store S (the registry, the heap of  *)
(* Message objects, the host's timers and channel list, and what the host  *)
(* has seen of the running callback so far: the lines printed, the         *)
(* commands said, the hooks unhooked).  Each returns a result              *)
(* [S, exc, ret]: the store it leaves, the exception it raises (NoError    *)
(* when it returns normally) and its return value.                         *)
(***************************************************************************)
EXTENDS Integers, Sequences, FiniteSets, TLC

VARIABLES
    targets,    \* HexPaste.targets: MessageContext -> Message (an index of msgs)
    msgs,       \* the Message objects alive: Message -> its fields
    nextJob,    \* the name the next Message created gets
    timers,     \* the host's live timer hooks: hook -> the Message whose tick it calls
    nextHook,   \* the next hook the host's hook_timer hands out
    channels,   \* the host's hexchat.get_list('channels'): the open contexts
    said,       \* per Message alive, the payloads its ticks have said so far
    call,       \* the callback the host made last
    ev          \* what the host saw of that callback

vars == <<targets, msgs, nextJob, timers, nextHook, channels, said, call, ev>>

----------------------------------------------------------------------------
(* Bounds of the model. *)

\* at most this many Message objects are created in a run
MaxJobs == 2
\* at most this many timers are hooked in a run
MaxHooks == 3
\* the longest line handed to paste_line on its own
MaxLine == 3

----------------------------------------------------------------------------
(* The host: contexts, files, command words. *)

\* Message.hook before any timer is hooked
None == 0
\* hexpaste_file_cb's speed when no speed is given
DefaultSpeed == 2500
\* hexchat.EAT_ALL, the dispatcher's return value
EAT_ALL == 3
\* the ret field of a callback that returned nothing
NoRet == -1

\* The contexts the host can show: what get_prefs('id') and
\* get_info('network' | 'server' | 'channel') answer in each.
HostContexts ==
    { [id |-> 1, network |-> "net", server |-> "irc", channel |-> "#a"],
      [id |-> 2, network |-> "net", server |-> "irc", channel |-> "#a"] }

NoContext == [id |-> 0, network |-> "", server |-> "", channel |-> ""]

\* str.rstrip() with no argument strips the characters for which
\* str.isspace() holds.  Of chr(0) .. chr(255) these are twelve: \t, \n,
\* \x0b (vertical tab), \f, \r, \x1c .. \x1f (the four separators), the
\* space, \x85 (next line) and \xa0 (no-break space); the seven without an
\* escape stand in the strings below as themselves.
Separators == {"", "", "", ""}

Whitespace ==
    {"\t", "\n", "", "\f", "\r", " ", "", " "} \cup Separators

\* int() strips the same characters from both ends of its string, but not
\* the four separators
IntWhitespace == Whitespace \ Separators

\* The text of each file after decoding (utf-8-sig) and before the
\* translation of its line ends, as characters; a path that is not here
\* cannot be opened.
FileSystem ==
    [x |-> <<"a", " ", "\n", " ", "\n", "b">>,
     y |-> <<"c", "\r", "\n", "\r">>,
     z |-> <<>>]

\* The speed arguments typed, as characters.
SpeedArgs == { <<"1", "0">>, <<"0">>, <<"-", "5">>, <<"1", "x">> }

\* The word lists the host passes for "/hexpaste ...": the commands that
\* reach the paster,
Words ==
    { <<"hexpaste", "stop">>, <<"hexpaste", "resume">>,
      <<"hexpaste", "file", "x">>, <<"hexpaste", "file", "z">>,
      <<"hexpaste", "file", "y", <<"1", "0">>>> }

\* and those the dispatcher or hexpaste_file_cb answer themselves.
OtherWords ==
    { <<"hexpaste">>, <<"hexpaste", "bogus">>, <<"hexpaste", "help">>,
      <<"hexpaste", "file">>, <<"hexpaste", "file", "missing">> }
    \cup { <<"hexpaste", "file", "y", s>> : s \in SpeedArgs \ { <<"1", "0">> } }

----------------------------------------------------------------------------
(* Results, errors and the host's primitives. *)

\* MessageContext.__str__: the channel and the network, not the id nor the
\* server
MessageContext_str(self) == [channel |-> self.channel, network |-> self.network]

\* '...{}...'.format(...): a line of text is its fixed text, the context
\* formatted into it (NoContext when it names none) and the line count
\* formatted into it (NoRet when it has none)
format(text, context, n) ==
    [text |-> text, context |-> MessageContext_str(context), n |-> n]

NoError == [type |-> "none", message |-> format("", NoContext, NoRet)]

\* class HexPasteError(Exception), with the message it is built with
HexPasteError(text, context) ==
    [type |-> "HexPasteError", message |-> format(text, context, NoRet)]

\* a Python error that is not a HexPasteError
ValueError == [type |-> "ValueError", message |-> format("", NoContext, NoRet)]

Return(S, ret) == [S |-> S, exc |-> NoError, ret |-> ret]
Raise(S, err) == [S |-> S, exc |-> err, ret |-> NoRet]
Raised(R) == R.exc # NoError

\* hexchat.prnt(string): the host shows one more line
prnt_str(S, string) == [S EXCEPT !.prnt = Append(@, string)]

\* hexchat.prnt('...{}...'.format(...))
prnt(S, text, context, n) == prnt_str(S, format(text, context, n))

\* hexchat.hook_timer(speed, callback): the host keeps a new timer that
\* calls the tick of Message j; the hook returned is S.nextHook
hook_timer(S, j) ==
    [S EXCEPT !.timers = (S.nextHook :> j) @@ @, !.nextHook = @ + 1]

\* the host drops a timer (no effect on a hook it does not hold)
drop_timer(S, hook) ==
    [S EXCEPT !.timers = [h \in (DOMAIN @) \ {hook} |-> @[h]]]

\* hexchat.unhook(hook)
unhook(S, hook) ==
    [drop_timer(S, hook) EXCEPT !.unhooked = Append(@, hook)]

----------------------------------------------------------------------------
(* I/O and parsing utils. *)

\* descriptor.readlines() of a file opened in text mode with the default
\* newline: every line end of the text, "\n", "\r\n" or "\r", is read as
\* "\n", and the text is cut after every line end; the last line has none
\* when the text does not end with one
RECURSIVE readlines(_, _)
readlines(text, line) ==
    IF text = <<>> THEN (IF line = <<>> THEN <<>> ELSE <<line>>)
    ELSE IF Head(text) = "\r" /\ Len(text) >= 2 /\ text[2] = "\n"
         THEN readlines(Tail(text), line)
    ELSE IF Head(text) \in {"\n", "\r"}
         THEN <<Append(line, "\n")>> \o readlines(Tail(text), <<>>)
         ELSE readlines(Tail(text), Append(line, Head(text)))

\* file_lines(filepath)
file_lines(S, filepath) ==
    IF filepath \in DOMAIN FileSystem
    THEN Return(S, readlines(FileSystem[filepath], <<>>))
    ELSE Raise(S, HexPasteError("HexPaste: unable to read", NoContext))

Digits == [c \in {"0", "1", "2", "3", "4", "5", "6", "7", "8", "9"} |->
    CASE c = "0" -> 0 [] c = "1" -> 1 [] c = "2" -> 2 [] c = "3" -> 3
      [] c = "4" -> 4 [] c = "5" -> 5 [] c = "6" -> 6 [] c = "7" -> 7
      [] c = "8" -> 8 [] c = "9" -> 9]

\* the value of a string of decimal digits and underscores
RECURSIVE digits_value(_, _)
digits_value(string, acc) ==
    IF string = <<>> THEN acc
    ELSE IF Head(string) = "_" THEN digits_value(Tail(string), acc)
    ELSE digits_value(Tail(string), 10 * acc + Digits[Head(string)])

\* the string without the whitespace int() skips at both ends
RECURSIVE int_strip(_)
int_strip(string) ==
    IF string # <<>> /\ Head(string) \in IntWhitespace THEN int_strip(Tail(string))
    ELSE IF string # <<>> /\ string[Len(string)] \in IntWhitespace
         THEN int_strip(SubSeq(string, 1, Len(string) - 1))
         ELSE string

\* int(string): whitespace at both ends is skipped; what is left must be
\* an optional sign and then decimal digits, with single underscores allowed
\* between digits and at most 4300 digits; else ValueError
int(S, string) ==
    LET stripped == int_strip(string)
        signed == stripped # <<>> /\ Head(stripped) \in {"-", "+"}
        body == IF signed THEN Tail(stripped) ELSE stripped
        digits == { n \in 1..Len(body) : body[n] \in DOMAIN Digits }
    IN  IF /\ body # <<>>
           /\ \A n \in 1..Len(body) : body[n] \in DOMAIN Digits \cup {"_"}
           /\ 1 \in digits /\ Len(body) \in digits
           /\ \A n \in 1..(Len(body) - 1) : n \in digits \/ (n + 1) \in digits
           /\ Cardinality(digits) <= 4300
        THEN Return(S, IF signed /\ Head(stripped) = "-"
                       THEN 0 - digits_value(body, 0)
                       ELSE digits_value(body, 0))
        ELSE Raise(S, ValueError)

\* parse_speed(string)
parse_speed(S, string) ==
    LET R == int(S, string)
    IN  IF Raised(R)
        THEN Raise(S, HexPasteError("HexPaste: invalid speed", NoContext))
        ELSE IF R.ret <= 0
             THEN Raise(S, HexPasteError("HexPaste: speed must be positive.", NoContext))
             ELSE Return(S, R.ret)

\* line.rstrip()
RECURSIVE rstrip(_)
rstrip(line) ==
    IF line # <<>> /\ line[Len(line)] \in Whitespace
    THEN rstrip(SubSeq(line, 1, Len(line) - 1))
    ELSE line

\* a paste_line that says the stripped line as it is, empty or not
paste_line_raw(S, hexchat_context, line) ==
    Return([S EXCEPT !.cmds = Append(@, [context |-> hexchat_context,
                                         say |-> rstrip(line)])], NoRet)

\* paste_line(hexchat_context, line): the 'say' command the host receives
paste_line(S, hexchat_context, line) ==
    LET stripped == rstrip(line)
        text == IF Len(stripped) = 0 THEN <<" ">> ELSE stripped
    IN  Return([S EXCEPT !.cmds = Append(@, [context |-> hexchat_context, say |-> text])],
               NoRet)

----------------------------------------------------------------------------
(* class MessageContext *)

\* MessageContext(): the id, network, server and channel of the context
\* the host has in focus
MessageContext(S) ==
    [id |-> S.current.id, network |-> S.current.network,
     server |-> S.current.server, channel |-> S.current.channel]

\* a MessageContext.__eq__ that leaves the id out
MessageContext_eq_noid(self, other) ==
    /\ self.network = other.network
    /\ self.server = other.server
    /\ self.channel = other.channel

\* MessageContext.__eq__
MessageContext_eq(self, other) ==
    /\ self.id = other.id
    /\ self.network = other.network
    /\ self.server = other.server
    /\ self.channel = other.channel

\* MessageContext.find_hexchat_context: the open context with this id,
\* network, server and channel, NoContext (None) when there is none
find_hexchat_context(S, self) ==
    LET found == { channel \in S.channels :
                     /\ channel.id = self.id
                     /\ channel.network = self.network
                     /\ channel.server = self.server
                     /\ channel.channel = self.channel }
    IN  IF found = {} THEN NoContext ELSE CHOOSE context \in found : TRUE

\* 'context in self.targets' and 'self.targets[context]': the dictionary
\* looks a key up with __hash__ and __eq__
InTargets(S, context) ==
    \E key \in DOMAIN S.targets : MessageContext_eq(key, context)

TargetOf(S, context) ==
    S.targets[CHOOSE key \in DOMAIN S.targets : MessageContext_eq(key, context)]

----------------------------------------------------------------------------
(* class Message; a Message is named by a number j, its fields are S.msgs[j] *)

\* Message.__init__
Message_init(context, lines, speed) ==
    [context |-> context, lines |-> lines, line_number |-> 0,
     total_lines |-> Len(lines), speed |-> speed, hook |-> None, state |-> "stop"]

\* Message.remaining_lines
remaining_lines(self) == self.total_lines - self.line_number

\* a Message.paste that does not look at the state
Message_paste_noguard(S, j) ==
    Return([hook_timer(S, j) EXCEPT !.msgs[j].hook = S.nextHook,
                                    !.msgs[j].state = "paste"], NoRet)

\* Message.paste
Message_paste(S, j) ==
    IF S.msgs[j].state = "paste"
    THEN Raise(S, HexPasteError("HexPaste: already pasting to", S.msgs[j].context))
    ELSE Return([hook_timer(S, j) EXCEPT !.msgs[j].hook = S.nextHook,
                                         !.msgs[j].state = "paste"], NoRet)

\* a Message.stop that starts over: it also resets line_number
Message_stop_rewind(S, j) ==
    IF S.msgs[j].state = "stop"
    THEN Raise(S, HexPasteError("HexPaste: not pasting to", S.msgs[j].context))
    ELSE Return([unhook(S, S.msgs[j].hook) EXCEPT !.msgs[j].hook = None,
                                                  !.msgs[j].line_number = 0,
                                                  !.msgs[j].state = "stop"], NoRet)

\* a Message.stop that forgets hexchat.unhook
Message_stop_nounhook(S, j) ==
    IF S.msgs[j].state = "stop"
    THEN Raise(S, HexPasteError("HexPaste: not pasting to", S.msgs[j].context))
    ELSE Return([S EXCEPT !.msgs[j].hook = None, !.msgs[j].state = "stop"], NoRet)

\* a Message.stop that keeps the unhooked hook in self.hook
Message_stop_keephook(S, j) ==
    IF S.msgs[j].state = "stop"
    THEN Raise(S, HexPasteError("HexPaste: not pasting to", S.msgs[j].context))
    ELSE Return([unhook(S, S.msgs[j].hook) EXCEPT !.msgs[j].state = "stop"], NoRet)

\* Message.stop
Message_stop(S, j) ==
    IF S.msgs[j].state = "stop"
    THEN Raise(S, HexPasteError("HexPaste: not pasting to", S.msgs[j].context))
    ELSE Return([unhook(S, S.msgs[j].hook) EXCEPT !.msgs[j].hook = None,
                                                  !.msgs[j].state = "stop"], NoRet)

\* a Message.maybe_stop that never stops
Message_maybe_stop_never(S, j) == Return(S, NoRet)

\* a Message.maybe_stop that is Message.stop: it raises when not pasting
Message_maybe_stop_strict(S, j) == Message_stop(S, j)

\* Message.maybe_stop
Message_maybe_stop(S, j) ==
    IF S.msgs[j].state = "paste" THEN Message_stop(S, j) ELSE Return(S, NoRet)

\* a HexPaste.remove_target that keeps the entry
HexPaste_remove_target_keep(S, context) ==
    IF ~ InTargets(S, context)
    THEN Raise(S, HexPasteError("HexPaste: internal error, removing unknown context?!",
                                NoContext))
    ELSE Return(prnt(S, "HexPaste: finished pasting to", context, NoRet), NoRet)

\* HexPaste.remove_target
HexPaste_remove_target(S, context) ==
    IF ~ InTargets(S, context)
    THEN Raise(S, HexPasteError("HexPaste: internal error, removing unknown context?!",
                                NoContext))
    ELSE Return(prnt([S EXCEPT !.targets =
                          [key \in { k \in DOMAIN @ : ~ MessageContext_eq(k, context) }
                              |-> @[key]]],
                     "HexPaste: finished pasting to", context, NoRet), NoRet)

\* a Message.tick that advances by two lines
Message_tick_skip(S, j) ==
    LET self == S.msgs[j]
    IN  IF remaining_lines(self) = 0
        THEN LET R == HexPaste_remove_target(S, self.context)
             IN  IF Raised(R) THEN R ELSE Return(R.S, 0)
        ELSE LET hexchat_context == find_hexchat_context(S, self.context)
             IN  IF hexchat_context = NoContext
                 THEN LET R == Message_stop(
                                 prnt(S, "HexPaste: stopping, target unreachable",
                                      self.context, NoRet), j)
                      IN  IF Raised(R) THEN R ELSE Return(R.S, 0)
                 ELSE LET R == paste_line(S, hexchat_context,
                                          self.lines[self.line_number + 1])
                      IN  Return([R.S EXCEPT !.msgs[j].line_number = @ + 2], 1)

\* a Message.tick that says the line and does not advance
Message_tick_noadvance(S, j) ==
    LET self == S.msgs[j]
    IN  IF remaining_lines(self) = 0
        THEN LET R == HexPaste_remove_target(S, self.context)
             IN  IF Raised(R) THEN R ELSE Return(R.S, 0)
        ELSE LET hexchat_context == find_hexchat_context(S, self.context)
             IN  IF hexchat_context = NoContext
                 THEN LET R == Message_stop(
                                 prnt(S, "HexPaste: stopping, target unreachable",
                                      self.context, NoRet), j)
                      IN  IF Raised(R) THEN R ELSE Return(R.S, 0)
                 ELSE LET R == paste_line(S, hexchat_context,
                                          self.lines[self.line_number + 1])
                      IN  Return(R.S, 1)

\* a Message.tick that ends the timer on an unreachable target without stop()
Message_tick_nostop(S, j) ==
    LET self == S.msgs[j]
    IN  IF remaining_lines(self) = 0
        THEN LET R == HexPaste_remove_target(S, self.context)
             IN  IF Raised(R) THEN R ELSE Return(R.S, 0)
        ELSE LET hexchat_context == find_hexchat_context(S, self.context)
             IN  IF hexchat_context = NoContext
                 THEN Return(prnt(S, "HexPaste: stopping, target unreachable",
                                  self.context, NoRet), 0)
                 ELSE LET R == paste_line(S, hexchat_context,
                                          self.lines[self.line_number + 1])
                      IN  Return([R.S EXCEPT !.msgs[j].line_number = @ + 1], 1)

\* a Message.tick that resolves the context before it looks at the lines
Message_tick_resolvefirst(S, j) ==
    LET self == S.msgs[j]
        hexchat_context == find_hexchat_context(S, self.context)
    IN  IF hexchat_context = NoContext
        THEN LET R == Message_stop(
                        prnt(S, "HexPaste: stopping, target unreachable",
                             self.context, NoRet), j)
             IN  IF Raised(R) THEN R ELSE Return(R.S, 0)
        ELSE IF remaining_lines(self) = 0
        THEN LET R == HexPaste_remove_target(S, self.context)
             IN  IF Raised(R) THEN R ELSE Return(R.S, 0)
        ELSE LET R == paste_line(S, hexchat_context,
                                 self.lines[self.line_number + 1])
             IN  Return([R.S EXCEPT !.msgs[j].line_number = @ + 1], 1)

\* a Message.tick that stops the Message when no line is pending, and
\* leaves it registered
Message_tick_idle(S, j) ==
    LET self == S.msgs[j]
    IN  IF remaining_lines(self) = 0
        THEN LET R == Message_stop(S, j)
             IN  IF Raised(R) THEN R ELSE Return(R.S, 0)
        ELSE LET hexchat_context == find_hexchat_context(S, self.context)
             IN  IF hexchat_context = NoContext
                 THEN LET R == Message_stop(
                                 prnt(S, "HexPaste: stopping, target unreachable",
                                      self.context, NoRet), j)
                      IN  IF Raised(R) THEN R ELSE Return(R.S, 0)
                 ELSE LET R == paste_line(S, hexchat_context,
                                          self.lines[self.line_number + 1])
                      IN  Return([R.S EXCEPT !.msgs[j].line_number = @ + 1], 1)

\* Message.tick; lines[line_number] is the (line_number + 1)-th line
Message_tick(S, j) ==
    LET self == S.msgs[j]
    IN  IF remaining_lines(self) = 0
        THEN LET R == HexPaste_remove_target(S, self.context)
             IN  IF Raised(R) THEN R ELSE Return(R.S, 0)
        ELSE LET hexchat_context == find_hexchat_context(S, self.context)
             IN  IF hexchat_context = NoContext
                 THEN LET R == Message_stop(
                                 prnt(S, "HexPaste: stopping, target unreachable",
                                      self.context, NoRet), j)
                      IN  IF Raised(R) THEN R ELSE Return(R.S, 0)
                 ELSE LET R == paste_line(S, hexchat_context,
                                          self.lines[self.line_number + 1])
                      IN  Return([R.S EXCEPT !.msgs[j].line_number = @ + 1], 1)

----------------------------------------------------------------------------
(* class HexPaste *)

\* a HexPaste.paste that overwrites the entry without old_message.maybe_stop()
HexPaste_paste_nostop(S, lines, speed) ==
    LET context == MessageContext(S)
        S1 == IF InTargets(S, context)
              THEN prnt(S, "HexPaste: replacing message to", context, NoRet)
              ELSE S
        message == S1.nextJob
        S2 == [S1 EXCEPT
                 !.msgs = (message :> Message_init(context, lines, speed)) @@ @,
                 !.nextJob = @ + 1,
                 !.targets = (context :> message) @@
                             [key \in { k \in DOMAIN @ : ~ MessageContext_eq(k, context) }
                                 |-> @[key]]]
        R3 == Message_paste(S2, message)
    IN  IF Raised(R3) THEN R3
        ELSE Return(prnt(R3.S, "HexPaste: pasting to", context,
                         remaining_lines(R3.S.msgs[message])), NoRet)

\* HexPaste.paste
HexPaste_paste(S, lines, speed) ==
    LET context == MessageContext(S)
        R1 == IF InTargets(S, context)
              THEN LET R == Message_maybe_stop(S, TargetOf(S, context))
                   IN  IF Raised(R) THEN R
                       ELSE Return(prnt(R.S, "HexPaste: replacing message to",
                                        context, NoRet), NoRet)
              ELSE Return(S, NoRet)
        message == R1.S.nextJob
        S2 == [R1.S EXCEPT
                 !.msgs = (message :> Message_init(context, lines, speed)) @@ @,
                 !.nextJob = @ + 1,
                 !.targets = (context :> message) @@
                             [key \in { k \in DOMAIN @ : ~ MessageContext_eq(k, context) }
                                 |-> @[key]]]
        R3 == Message_paste(S2, message)
    IN  IF Raised(R1) THEN R1
        ELSE IF Raised(R3) THEN R3
        ELSE Return(prnt(R3.S, "HexPaste: pasting to", context,
                         remaining_lines(R3.S.msgs[message])), NoRet)

\* a HexPaste.stop that prints nothing
HexPaste_stop_silent(S) ==
    LET context == MessageContext(S)
    IN  IF ~ InTargets(S, context)
        THEN Raise(S, HexPasteError("HexPaste: not pasting to", context))
        ELSE Message_stop(S, TargetOf(S, context))

\* HexPaste.stop
HexPaste_stop(S) ==
    LET context == MessageContext(S)
    IN  IF ~ InTargets(S, context)
        THEN Raise(S, HexPasteError("HexPaste: not pasting to", context))
        ELSE LET message == TargetOf(S, context)
                 R == Message_stop(S, message)
             IN  IF Raised(R) THEN R
                 ELSE Return(prnt(R.S, "HexPaste: stopped pasting to", context,
                                  remaining_lines(R.S.msgs[message])), NoRet)

\* a HexPaste.resume that returns silently when there is no entry
HexPaste_resume_silent(S) ==
    LET context == MessageContext(S)
    IN  IF ~ InTargets(S, context)
        THEN Return(S, NoRet)
        ELSE LET message == TargetOf(S, context)
                 R == Message_paste(S, message)
             IN  IF Raised(R) THEN R
                 ELSE Return(prnt(R.S, "HexPaste: resumed pasting to", context,
                                  remaining_lines(R.S.msgs[message])), NoRet)

\* HexPaste.resume
HexPaste_resume(S) ==
    LET context == MessageContext(S)
    IN  IF ~ InTargets(S, context)
        THEN Raise(S, HexPasteError("HexPaste: not pasting to", context))
        ELSE LET message == TargetOf(S, context)
                 R == Message_paste(S, message)
             IN  IF Raised(R) THEN R
                 ELSE Return(prnt(R.S, "HexPaste: resumed pasting to", context,
                                  remaining_lines(R.S.msgs[message])), NoRet)

----------------------------------------------------------------------------
(* Commands; Python's word[i] is word[i + 1] here *)

\* a hexpaste_file_cb that pastes at the default speed before it parses
\* the speed
hexpaste_file_cb_late(S, word) ==
    IF Len(word) < 3
    THEN Raise(S, HexPasteError("HexPaste: no filename.", NoContext))
    ELSE LET Rlines == file_lines(S, word[3])
             Rpaste == HexPaste_paste(S, Rlines.ret, DefaultSpeed)
             Rspeed == IF Len(word) >= 4 THEN parse_speed(Rpaste.S, word[4])
                       ELSE Return(Rpaste.S, DefaultSpeed)
         IN  IF Raised(Rlines) THEN Rlines
             ELSE IF Raised(Rpaste) THEN Rpaste
             ELSE IF Raised(Rspeed) THEN Rspeed
             ELSE Rpaste

\* hexpaste_file_cb
hexpaste_file_cb(S, word) ==
    IF Len(word) < 3
    THEN Raise(S, HexPasteError("HexPaste: no filename.", NoContext))
    ELSE LET filepath == word[3]
             Rspeed == IF Len(word) >= 4 THEN parse_speed(S, word[4])
                       ELSE Return(S, DefaultSpeed)
             Rlines == file_lines(S, filepath)
         IN  IF Raised(Rspeed) THEN Rspeed
             ELSE IF Raised(Rlines) THEN Rlines
             ELSE HexPaste_paste(S, Rlines.ret, Rspeed.ret)

\* hexpaste_stop_cb
hexpaste_stop_cb(S, word) == HexPaste_stop(S)

\* hexpaste_resume_cb
hexpaste_resume_cb(S, word) == HexPaste_resume(S)

\* the keys of hexpaste_commands, in insertion order
hexpaste_commands == <<"file", "stop", "resume", "help">>

\* hexpaste_help_cb: a heading and the documentation of every command
RECURSIVE help_lines(_, _)
help_lines(S, names) ==
    IF names = <<>> THEN S
    ELSE help_lines(prnt(S, Head(names), NoContext, NoRet), Tail(names))

hexpaste_help_cb(S, word) ==
    Return(help_lines(prnt(S, "HexPaste: available commands:", NoContext, NoRet),
                      hexpaste_commands), NoRet)

\* a hexpaste_cb without its try / except / finally: what the callback
\* raises escapes to the host
hexpaste_cb_escape(S, word) ==
    LET R == IF Len(word) < 2
             THEN Raise(S, HexPasteError("HexPaste: no parameters.", NoContext))
             ELSE IF ~ \E i \in 1..Len(hexpaste_commands) : hexpaste_commands[i] = word[2]
             THEN Raise(S, HexPasteError("HexPaste: unknown command.", NoContext))
             ELSE CASE word[2] = "file" -> hexpaste_file_cb(S, word)
                    [] word[2] = "stop" -> hexpaste_stop_cb(S, word)
                    [] word[2] = "resume" -> hexpaste_resume_cb(S, word)
                    [] word[2] = "help" -> hexpaste_help_cb(S, word)
    IN  IF Raised(R) THEN R ELSE Return(R.S, EAT_ALL)

\* hexpaste_cb: the dispatcher, with its try / except / finally
hexpaste_cb(S, word) ==
    LET R == IF Len(word) < 2
             THEN Raise(S, HexPasteError("HexPaste: no parameters.", NoContext))
             ELSE IF ~ \E i \in 1..Len(hexpaste_commands) : hexpaste_commands[i] = word[2]
             THEN Raise(S, HexPasteError("HexPaste: unknown command.", NoContext))
             ELSE CASE word[2] = "file" -> hexpaste_file_cb(S, word)
                    [] word[2] = "stop" -> hexpaste_stop_cb(S, word)
                    [] word[2] = "resume" -> hexpaste_resume_cb(S, word)
                    [] word[2] = "help" -> hexpaste_help_cb(S, word)
    IN  IF R.exc.type = "HexPasteError"
        THEN Return(prnt_str(R.S, R.exc.message), EAT_ALL)
        ELSE IF Raised(R)
        THEN Return(prnt(R.S, "Traceback", NoContext, NoRet), EAT_ALL)
        ELSE Return(R.S, EAT_ALL)

----------------------------------------------------------------------------
(* The state machine: the host calls the plugin back, one callback at a time. *)

\* the store a callback starts with, in the context the host has in focus
Store(current) ==
    [targets |-> targets, msgs |-> msgs, nextJob |-> nextJob,
     timers |-> timers, nextHook |-> nextHook,
     channels |-> channels, current |-> current,
     prnt |-> <<>>, cmds |-> <<>>, unhooked |-> <<>>]

\* The callback the host made: which one (op), the words of the command
\* and the context it was typed in, or the hook that fired, its Message
\* (job) and that Message's context.
NoCall ==
    [op |-> "none", word |-> <<>>, context |-> NoContext, job |-> 0, hook |-> None]

\* What the host saw of it: the lines printed, the commands said and the
\* hooks unhooked; the value returned or the exception that escaped; and
\* the fields of the ticking Message when the tick ended.
NoEvent ==
    [prnt |-> <<>>, cmds |-> <<>>, unhooked |-> <<>>, ret |-> NoRet, exc |-> NoError,
     message |-> Message_init(NoContext, <<>>, 0)]

\* paster = HexPaste(): no targets; the host has every context open
Init ==
    /\ targets = [key \in {} |-> 0]
    /\ msgs = [j \in {} |-> 0]
    /\ nextJob = 1
    /\ timers = [h \in {} |-> 0]
    /\ nextHook = 1
    /\ channels = HostContexts
    /\ said = [j \in {} |-> 0]
    /\ call = NoCall
    /\ ev = NoEvent

\* The Messages a store still refers to, from the registry or from a timer
\* bound to their tick; Python frees the others.
Alive(S) ==
    { S.targets[key] : key \in DOMAIN S.targets } \cup { S.timers[h] : h \in DOMAIN S.timers }

\* the user types "/hexpaste ..." in the context current
Command(current, word) ==
    /\ call' = [NoCall EXCEPT !.op = "hexpaste_cb", !.word = word, !.context = current]
    /\ \E S \in { Store(current) } :
       \E R \in { hexpaste_cb(S, word) } :
       \E alive \in { Alive(R.S) } :
        /\ R.S.nextJob <= MaxJobs + 1
        /\ R.S.nextHook <= MaxHooks + 1
        /\ targets' = R.S.targets
        /\ msgs' = [j \in alive |-> R.S.msgs[j]]
        /\ nextJob' = R.S.nextJob
        /\ timers' = R.S.timers
        /\ nextHook' = R.S.nextHook
        /\ said' = [j \in alive |-> IF j \in DOMAIN said THEN said[j] ELSE <<>>]
        /\ ev' = [NoEvent EXCEPT !.prnt = R.S.prnt, !.cmds = R.S.cmds,
                                 !.unhooked = R.S.unhooked,
                                 !.ret = R.ret, !.exc = R.exc]
        /\ UNCHANGED channels

\* the host's timer hook fires: it calls the tick of its Message and drops
\* the timer when the tick returns 0 or raises
Tick(hook) ==
    /\ hook \in DOMAIN timers
    /\ call' = [NoCall EXCEPT !.op = "tick", !.job = timers[hook], !.hook = hook,
                              !.context = msgs[timers[hook]].context]
    /\ \E S \in { Store(NoContext) } :
       \E R \in { Message_tick(S, timers[hook]) } :
       \E after \in { IF ~ Raised(R) /\ R.ret # 0 THEN R.S ELSE drop_timer(R.S, hook) } :
       \E alive \in { Alive(after) } :
           /\ targets' = after.targets
           /\ msgs' = [i \in alive |-> after.msgs[i]]
           /\ nextJob' = after.nextJob
           /\ timers' = after.timers
           /\ nextHook' = after.nextHook
           /\ said' = [i \in alive |->
                          IF i = timers[hook]
                          THEN said[i] \o [n \in 1..Len(R.S.cmds) |-> R.S.cmds[n].say]
                          ELSE said[i]]
           /\ ev' = [NoEvent EXCEPT !.prnt = R.S.prnt, !.cmds = R.S.cmds,
                                    !.unhooked = R.S.unhooked,
                                    !.ret = R.ret, !.exc = R.exc,
                                    !.message = R.S.msgs[timers[hook]]]
           /\ UNCHANGED channels

\* the user joins a channel or reconnects: the context is open (again)
Open(context) ==
    /\ context \notin channels
    /\ channels' = channels \cup {context}
    /\ call' = [NoCall EXCEPT !.op = "host"]
    /\ ev' = NoEvent
    /\ UNCHANGED <<targets, msgs, nextJob, timers, nextHook, said>>

\* the user parts, closes the tab or loses the connection
Close(context) ==
    /\ context \in channels
    /\ channels' = channels \ {context}
    /\ call' = [NoCall EXCEPT !.op = "host"]
    /\ ev' = NoEvent
    /\ UNCHANGED <<targets, msgs, nextJob, timers, nextHook, said>>

Next ==
    \/ \E current \in HostContexts, word \in Words : Command(current, word)
    \/ \E hook \in DOMAIN timers : Tick(hook)
    \/ \E context \in HostContexts : Open(context)
    \/ \E context \in HostContexts : Close(context)

Spec == Init /\ [][Next]_vars

\* The host's event loop calls every timer it holds again and again.
FairSpec == Spec /\ \A hook \in 1..MaxHooks : WF_vars(Tick(hook))

\* The same machine when the user also types the commands that the
\* dispatcher or hexpaste_file_cb answer themselves, next to a paste of the
\* file y, stop and resume.
DispatchWords ==
    { <<"hexpaste", "file", "y", <<"+", "1", "_", "0">>>>,
      <<"hexpaste", "stop">>, <<"hexpaste", "resume">> } \cup OtherWords

DispatchNext ==
    \/ \E current \in HostContexts, word \in DispatchWords : Command(current, word)
    \/ \E hook \in DOMAIN timers : Tick(hook)
    \/ \E context \in HostContexts : Open(context)
    \/ \E context \in HostContexts : Close(context)

DispatchSpec == Init /\ [][DispatchNext]_vars

\* paste_line on its own: the lines readlines can hand it, of up to MaxLine
\* characters; a newline can only be the last character of a line.
LineChars == {"a", "b", " ", "\t", " ", "\n"}

Lines ==
    { line \in UNION { [1..n -> LineChars] : n \in 0..MaxLine } :
        \A n \in 1..(Len(line) - 1) : line[n] # "\n" }

\* paste_line(hexchat_context, line) is called
SayLine(hexchat_context, line) ==
    /\ call' = [NoCall EXCEPT !.op = "paste_line", !.word = line,
                              !.context = hexchat_context]
    /\ \E R \in { paste_line(Store(NoContext), hexchat_context, line) } :
           ev' = [NoEvent EXCEPT !.prnt = R.S.prnt, !.cmds = R.S.cmds,
                                 !.unhooked = R.S.unhooked,
                                 !.ret = R.ret, !.exc = R.exc]
    /\ UNCHANGED <<targets, msgs, nextJob, timers, nextHook, channels, said>>

PasteLineNext ==
    \E hexchat_context \in HostContexts, line \in Lines : SayLine(hexchat_context, line)

PasteLineSpec == Init /\ [][PasteLineNext]_vars

----------------------------------------------------------------------------
(* Vocabulary of the properties. *)

\* the Message registered for a destination, and whether j is registered
Registered(j) == \E key \in DOMAIN targets : targets[key] = j

\* the live timers that tick Message j, and those of a destination
HooksOf(j) == { h \in DOMAIN timers : timers[h] = j }
TimersFor(context) == { h \in DOMAIN timers : msgs[timers[h]].context = context }

\* the payload paste_line says for a line
Payload(line) == paste_line([cmds |-> <<>>], NoContext, line).S.cmds[1].say

\* whether the host has the destination open
Reachable(context) == find_hexchat_context(Store(NoContext), context) # NoContext

\* the verb of the command an event records
Verb(e) == IF e.op = "hexpaste_cb" /\ Len(e.word) >= 2 THEN e.word[2] ELSE ""

\* one diagnostic line
Line(text, context, n) == format(text, context, n)

\* the step was a tick of Message j
TickOf(j) == call'.op = "tick" /\ call'.job = j

\* the step left the plugin's and the host's timer state as it was
NothingChanged == UNCHANGED <<targets, msgs, nextJob, timers, nextHook, channels, said>>

----------------------------------------------------------------------------
(* C1 *)

\* C1: in every reachable state each destination has at most one registered
\* Message and at most one live timer, that timer being the one its
\* registered Message holds; resume on an active Message and paste over an
\* active Message never leave two timers ticking for one destination.
C1_OneJobOneTimer ==
    \A context \in HostContexts :
        /\ Cardinality({ j \in DOMAIN msgs : Registered(j) /\ msgs[j].context = context }) <= 1
        /\ Cardinality(TimersFor(context)) <= 1
        /\ \A h \in TimersFor(context) :
               /\ context \in DOMAIN targets
               /\ targets[context] = timers[h]
               /\ msgs[timers[h]].hook = h

\* a paste has just replaced an active Message (its timer was unhooked) and
\* the destination has exactly the new Message's timer
C1_Witness ==
    /\ Verb(call) = "file"
    /\ Len(ev.prnt) = 2
    /\ ev.prnt[1] = Line("HexPaste: replacing message to", call.context, NoRet)
    /\ Len(ev.unhooked) = 1
    /\ Cardinality(TimersFor(call.context)) = 1

----------------------------------------------------------------------------
(* C2 *)

\* C2: for every Message, whatever ticks, stops, resumes and unreachable
\* periods came before, the payloads it has said so far are exactly the
\* normalized lines before its cursor, in the original order; a tick says
\* at most one line, to the Message's own context.
C2_SentIsPrefix ==
    /\ \A j \in DOMAIN msgs :
           said[j] = [i \in 1..msgs[j].line_number |-> Payload(msgs[j].lines[i])]
    /\ call.op = "tick" =>
           /\ Len(ev.cmds) <= 1
           /\ \A i \in 1..Len(ev.cmds) : ev.cmds[i].context = call.context

\* the first Message, stopped or auto-stopped and resumed on the way (it
\* ticks on its second hook or a later one), has said all its three lines
C2_Witness ==
    /\ call.op = "tick" /\ call.job = 1 /\ call.hook >= 2
    /\ 1 \in DOMAIN msgs
    /\ msgs[1].line_number = 3
    /\ said[1] = << <<"a">>, <<" ">>, <<"b">> >>

----------------------------------------------------------------------------
(* C3 *)

\* C3: the cursor of every Message never decreases and always lies between
\* 0 and the number of lines; a tick advances the cursor by one exactly
\* when it says a line, and otherwise (completion, auto-stop) leaves it.
C3_CursorMonotone ==
    /\ [](\A j \in DOMAIN msgs :
              /\ 0 <= msgs[j].line_number
              /\ msgs[j].line_number <= Len(msgs[j].lines)
              /\ msgs[j].total_lines = Len(msgs[j].lines))
    /\ [][\A j \in DOMAIN msgs :
              /\ j \in DOMAIN msgs' =>
                     /\ msgs'[j].line_number >= msgs[j].line_number
                     /\ msgs'[j].lines = msgs[j].lines
              /\ TickOf(j) =>
                     /\ ev'.message.line_number \in
                            { msgs[j].line_number, msgs[j].line_number + 1 }
                     /\ (ev'.message.line_number = msgs[j].line_number + 1)
                            <=> (Len(ev'.cmds) = 1)
                     /\ (ev'.message.line_number = msgs[j].line_number)
                            <=> (ev'.cmds = <<>>)
                     /\ j \in DOMAIN msgs' => msgs'[j] = ev'.message
         ]_vars

\* a completion tick has just run: it said nothing and left the cursor at
\* the end of the lines
C3_Witness ==
    /\ call.op = "tick" /\ ev.ret = 0 /\ ev.cmds = <<>>
    /\ ev.message.line_number = 3
    /\ ev.message.total_lines = 3
    /\ call.job \notin DOMAIN msgs

----------------------------------------------------------------------------
(* C4 *)

\* C4: stop and resume leave the cursor and the lines of every Message
\* unchanged, and so does every step taken while the Message is stopped;
\* hence a Message stopped at cursor k resumes at cursor k, and the line a
\* tick says is always the one at the cursor, so that the first line said
\* after the resume is lines[k].
C4_StopResumeKeepCursor ==
    [][\A j \in DOMAIN msgs :
           /\ (msgs[j].state = "stop" \/ Verb(call') \in {"stop", "resume"})
                  /\ j \in DOMAIN msgs' =>
                  /\ msgs'[j].line_number = msgs[j].line_number
                  /\ msgs'[j].lines = msgs[j].lines
           /\ TickOf(j) /\ ev'.cmds # <<>> =>
                  ev'.cmds = << [context |-> msgs[j].context,
                                 say |-> Payload(msgs[j].lines[msgs[j].line_number + 1])] >>
      ]_vars

\* a Message of three lines that was stopped after its first line has just
\* been resumed, with two lines pending and its cursor still at 1
C4_Witness ==
    /\ Verb(call) = "resume"
    /\ ev.prnt = << Line("HexPaste: resumed pasting to", call.context, 2) >>
    /\ call.context \in DOMAIN targets
    /\ msgs[targets[call.context]].state = "paste"
    /\ msgs[targets[call.context]].line_number = 1
    /\ said[targets[call.context]] = << <<"a">> >>

----------------------------------------------------------------------------
(* C5 *)

\* C5: a paste typed where a Message is registered, active or stopped,
\* raises no error: it prints the replacing and the pasting line, leaves the
\* registry entry at a new active Message with the new lines and cursor 0
\* whose timer is the only one of the destination, and the old Message is
\* left with no timer; as only a Message with a timer says lines and every
\* timer belongs to a registered Message, none of the old lines is said
\* afterwards.
C5_ReplaceWins ==
    /\ [][\A context \in DOMAIN targets :
              Verb(call') = "file" /\ call'.context = context =>
                  LET old == targets[context]
                      new == targets'[context]
                  IN  /\ ev'.exc = NoError
                      /\ ev'.prnt = << Line("HexPaste: replacing message to", context, NoRet),
                                       Line("HexPaste: pasting to", context,
                                            Len(msgs'[new].lines)) >>
                      /\ context \in DOMAIN targets'
                      /\ new = nextJob /\ new # old
                      /\ msgs'[new].lines = readlines(FileSystem[call'.word[3]], <<>>)
                      /\ msgs'[new].line_number = 0
                      /\ msgs'[new].state = "paste"
                      /\ msgs'[new].context = context
                      /\ TimersFor(context)' = { msgs'[new].hook }
                      /\ timers'[msgs'[new].hook] = new
                      /\ old \notin DOMAIN msgs'
         ]_vars
    /\ [][\A j \in DOMAIN msgs : TickOf(j) /\ ev'.cmds # <<>> =>
              /\ msgs[j].context \in DOMAIN targets
              /\ targets[msgs[j].context] = j
         ]_vars

\* the file y has just been pasted over the first Message, which was active
\* (its timer was unhooked): the entry holds y's lines and the first
\* Message is gone
C5_Witness ==
    /\ Verb(call) = "file" /\ call.word[3] = "y"
    /\ Len(ev.prnt) = 2
    /\ ev.prnt[1].text = "HexPaste: replacing message to"
    /\ ev.unhooked # <<>>
    /\ call.context \in DOMAIN targets
    /\ msgs[targets[call.context]].lines = << <<"c", "\n">>, <<"\n">> >>
    /\ 1 \notin DOMAIN msgs

----------------------------------------------------------------------------
(* C6 *)

\* C6: a tick of a Message with lines pending whose destination is
\* unreachable prints the stopping line, says nothing, returns 0 and leaves
\* the Message stopped with no timer, its cursor kept, still registered; a
\* resume of a stopped Message makes it active again on a new timer at the
\* same cursor, and a tick that finds the destination reachable says the
\* line at the cursor and advances by one, so that the pending lines are
\* delivered in order.
C6_UnreachableAutoStop ==
    [][\A j \in DOMAIN msgs :
           LET self == msgs[j]
           IN  /\ TickOf(j) /\ remaining_lines(self) > 0 /\ ~ Reachable(self.context) =>
                      /\ ev'.prnt = << Line("HexPaste: stopping, target unreachable",
                                            self.context, NoRet) >>
                      /\ ev'.cmds = <<>>
                      /\ ev'.ret = 0 /\ ev'.exc = NoError
                      /\ targets' = targets
                      /\ j \in DOMAIN msgs'
                      /\ msgs'[j] = [self EXCEPT !.state = "stop", !.hook = None]
                      /\ TimersFor(self.context)' = {}
                      /\ said' = said
               /\ TickOf(j) /\ remaining_lines(self) > 0 /\ Reachable(self.context) =>
                      /\ ev'.cmds = << [context |-> self.context,
                                        say |-> Payload(self.lines[self.line_number + 1])] >>
                      /\ ev'.ret = 1 /\ ev'.prnt = <<>>
                      /\ msgs'[j] = [self EXCEPT !.line_number = @ + 1]
                      /\ timers' = timers /\ targets' = targets
               /\ Verb(call') = "resume" /\ self.state = "stop"
                      /\ self.context \in DOMAIN targets /\ targets[self.context] = j
                      /\ call'.context = self.context =>
                      /\ ev'.prnt = << Line("HexPaste: resumed pasting to", self.context,
                                            remaining_lines(self)) >>
                      /\ msgs'[j] = [self EXCEPT !.state = "paste", !.hook = nextHook]
                      /\ HooksOf(j)' = { nextHook }
                      /\ targets' = targets
      ]_vars

\* a tick has just auto-stopped a Message of three lines after its first
\* line: it is registered, stopped, without a timer, and two lines remain
C6_Witness ==
    /\ call.op = "tick" /\ ev.ret = 0
    /\ ev.prnt = << Line("HexPaste: stopping, target unreachable", call.context, NoRet) >>
    /\ call.context \in DOMAIN targets /\ targets[call.context] = call.job
    /\ msgs[call.job].state = "stop"
    /\ msgs[call.job].line_number = 1 /\ remaining_lines(msgs[call.job]) = 2
    /\ HooksOf(call.job) = {}

----------------------------------------------------------------------------
(* C7 *)

\* C7: a registered Message that is stopped, by stop or by the auto-stop,
\* has no timer and neither has its destination, so that nothing ticks for
\* it until a resume or a paste; a tick only ever runs for, and a line is
\* only ever said by, a Message that is registered and active.
C7_NoTickWhileStopped ==
    /\ [](\A j \in DOMAIN msgs :
              Registered(j) /\ msgs[j].state = "stop" =>
                  /\ HooksOf(j) = {}
                  /\ TimersFor(msgs[j].context) = {}
                  /\ msgs[j].hook = None)
    /\ [][\A j \in DOMAIN msgs : TickOf(j) =>
              /\ Registered(j)
              /\ msgs[j].state = "paste"
         ]_vars
    /\ [][ev'.cmds # <<>> => call'.op = "tick"]_vars
    /\ [][\A j \in DOMAIN msgs :
              Registered(j) /\ msgs[j].state = "stop"
                  /\ j \in DOMAIN msgs' /\ msgs'[j].state = "paste" =>
                  Verb(call') = "resume" /\ call'.context = msgs[j].context
         ]_vars

\* a stop command has just stopped an active Message with lines pending
C7_Witness ==
    /\ Verb(call) = "stop"
    /\ ev.prnt = << Line("HexPaste: stopped pasting to", call.context, 2) >>
    /\ ev.unhooked # <<>>
    /\ call.context \in DOMAIN targets
    /\ msgs[targets[call.context]].state = "stop"
    /\ TimersFor(call.context) = {}

----------------------------------------------------------------------------
(* C8 *)

\* C8: while its destination is reachable every tick of an active Message
\* with lines pending says the line at the cursor, advances by one and keeps
\* the timer, so that N lines take N ticks; the tick that finds no line
\* pending says nothing, prints the finished line, returns 0, removes the
\* entry from the registry and leaves the destination without a timer.
\* Under fair ticking an active registered Message does not stay so for
\* ever: unless it is stopped, auto-stopped or replaced, it is removed.
C8_CompletesAndIsRemoved ==
    /\ [][\A j \in DOMAIN msgs :
              LET self == msgs[j]
              IN  /\ TickOf(j) /\ Reachable(self.context) /\ self.line_number < self.total_lines =>
                         /\ Len(ev'.cmds) = 1
                         /\ ev'.cmds[1].say = Payload(self.lines[self.line_number + 1])
                         /\ said'[j] = Append(said[j], ev'.cmds[1].say)
                         /\ msgs'[j].line_number = self.line_number + 1
                         /\ ev'.ret = 1
                         /\ call'.hook \in HooksOf(j)'
                         /\ targets'[self.context] = j
                  /\ TickOf(j) /\ self.line_number = self.total_lines =>
                         /\ ev'.cmds = <<>>
                         /\ ev'.prnt = << Line("HexPaste: finished pasting to",
                                               self.context, NoRet) >>
                         /\ ev'.ret = 0 /\ ev'.exc = NoError
                         /\ Len(said[j]) = self.total_lines
                         /\ self.context \notin DOMAIN targets'
                         /\ DOMAIN timers' = DOMAIN timers \ { call'.hook }
                         /\ \A h \in DOMAIN timers' : timers'[h] # j
                         /\ j \notin DOMAIN msgs'
         ]_vars
    /\ \A j \in 1..MaxJobs :
           (j \in DOMAIN msgs /\ Registered(j) /\ msgs[j].state = "paste")
               ~> (j \notin DOMAIN msgs \/ ~ Registered(j) \/ msgs[j].state = "stop")

\* the first Message, of three lines, never stopped (it ticked on the hook
\* it was pasted with, and no other hook or Message was ever made) has just
\* been removed by its fourth tick
C8_Witness ==
    /\ call.op = "tick" /\ call.job = 1 /\ call.hook = 1
    /\ nextHook = 2 /\ nextJob = 2
    /\ ev.message.total_lines = 3 /\ ev.message.line_number = 3
    /\ ev.prnt = << Line("HexPaste: finished pasting to", call.context, NoRet) >>
    /\ targets = [key \in {} |-> 0]
    /\ timers = [h \in {} |-> 0]

----------------------------------------------------------------------------
(* C9 *)

\* C9: Message.paste on an active Message raises the already-pasting error
\* and Message.stop on a stopped one the not-pasting error, both leaving the
\* store as it was; so a resume typed where the registered Message is
\* active, and a stop typed where it is stopped, print that one error line
\* and change neither cursor, state, timer nor registry.
C9_WrongStateFails ==
    /\ [](\A j \in DOMAIN msgs :
              LET S == Store(NoContext)
              IN  /\ msgs[j].state = "paste" =>
                         Message_paste(S, j) =
                             Raise(S, HexPasteError("HexPaste: already pasting to",
                                                    msgs[j].context))
                  /\ msgs[j].state = "stop" =>
                         Message_stop(S, j) =
                             Raise(S, HexPasteError("HexPaste: not pasting to",
                                                    msgs[j].context)))
    /\ [][\A context \in DOMAIN targets :
              LET self == msgs[targets[context]]
              IN  /\ Verb(call') = "resume" /\ call'.context = context /\ self.state = "paste" =>
                         /\ ev'.prnt = << Line("HexPaste: already pasting to", context, NoRet) >>
                         /\ ev'.unhooked = <<>>
                         /\ NothingChanged
                  /\ Verb(call') = "stop" /\ call'.context = context /\ self.state = "stop" =>
                         /\ ev'.prnt = << Line("HexPaste: not pasting to", context, NoRet) >>
                         /\ ev'.unhooked = <<>>
                         /\ NothingChanged
         ]_vars

\* a resume has just been refused where the registered Message is active
\* after its first line: the Message still ticks on its one timer
C9_Witness ==
    /\ Verb(call) = "resume"
    /\ ev.prnt = << Line("HexPaste: already pasting to", call.context, NoRet) >>
    /\ call.context \in DOMAIN targets
    /\ msgs[targets[call.context]].state = "paste"
    /\ msgs[targets[call.context]].line_number = 1
    /\ TimersFor(call.context) = { msgs[targets[call.context]].hook }

----------------------------------------------------------------------------
(* C10 *)

\* C10: a stop or a resume typed in a context that has no registry entry
\* prints the one not-pasting error line for that context and changes
\* nothing: the registry, every Message and every timer are as before.
C10_NoEntryFails ==
    [][\A context \in HostContexts \ DOMAIN targets :
           Verb(call') \in {"stop", "resume"} /\ call'.context = context =>
               /\ ev'.prnt = << Line("HexPaste: not pasting to", context, NoRet) >>
               /\ ev'.unhooked = <<>> /\ ev'.cmds = <<>>
               /\ ev'.ret = EAT_ALL
               /\ NothingChanged
      ]_vars

\* a resume has just been refused in a context without an entry while the
\* other destination's Message is active, after its first line, on its timer
C10_Witness ==
    /\ Verb(call) = "resume"
    /\ ev.prnt = << Line("HexPaste: not pasting to", call.context, NoRet) >>
    /\ call.context \notin DOMAIN targets
    /\ \E other \in DOMAIN targets :
           /\ msgs[targets[other]].state = "paste"
           /\ msgs[targets[other]].line_number = 1
           /\ TimersFor(other) = { msgs[targets[other]].hook }

----------------------------------------------------------------------------
(* C11 *)

\* C11: contexts that differ only in the id are different keys of the
\* registry, each with a Message of its own; a command typed in one context
\* or a tick of one context's Message leaves every other context's entry,
\* Message (state, cursor, hook), timers and lines said as they were; and
\* a tick says its line in the context of its own Message.
C11_DestinationsIndependent ==
    /\ [][\A other \in HostContexts :
              call'.op \in {"hexpaste_cb", "tick"} /\ other # call'.context =>
                  /\ other \in DOMAIN targets' => other \in DOMAIN targets
                  /\ other \in DOMAIN targets =>
                         /\ other \in DOMAIN targets'
                         /\ targets'[other] = targets[other]
                         /\ msgs'[targets[other]] = msgs[targets[other]]
                         /\ said'[targets[other]] = said[targets[other]]
                         /\ HooksOf(targets[other])' = HooksOf(targets[other])
                  /\ TimersFor(other)' = TimersFor(other)
         ]_vars
    /\ [][\A j \in DOMAIN msgs : TickOf(j) =>
              \A n \in 1..Len(ev'.cmds) : ev'.cmds[n].context = msgs[j].context
         ]_vars
    /\ [][\A c1, c2 \in DOMAIN targets' : c1 # c2 => targets'[c1] # targets'[c2]]_vars

\* both contexts, alike but for the id, have a Message registered; the
\* Message of the first has just said a line there, the other has said none
\* and keeps its timer
C11_Witness ==
    /\ call.op = "tick" /\ call.context.id = 1
    /\ Len(ev.cmds) = 1 /\ ev.cmds[1].context = call.context
    /\ DOMAIN targets = HostContexts
    /\ \A other \in HostContexts \ { call.context } :
           /\ other.network = call.context.network
           /\ other.server = call.context.server
           /\ other.channel = call.context.channel
           /\ targets[other] # call.job
           /\ said[targets[other]] = <<>>
           /\ msgs[targets[other]].state = "paste"
           /\ TimersFor(other) = { msgs[targets[other]].hook }

----------------------------------------------------------------------------
(* C12 *)

\* the step is one of the operations C12 lists: a file, stop or resume
\* command or a rejected command (any command but help), or a tick that
\* ends its timer (completion removal or unreachable auto-stop)
C12_Operation ==
    \/ call'.op = "hexpaste_cb" /\ Verb(call') # "help"
    \/ call'.op = "tick" /\ ev'.ret = 0

\* the step is a paste that replaced the entry of its context
C12_Replaced ==
    /\ Verb(call') = "file"
    /\ call'.context \in DOMAIN targets
    /\ targets'[call'.context] # targets[call'.context]

\* C12 as stated: every operation prints exactly one diagnostic line.
C12_ExactlyOneLine ==
    [][C12_Operation => Len(ev'.prnt) = 1]_vars

\* C12 as the code has it: every operation prints exactly one diagnostic
\* line, except a paste that replaces an entry, which prints two: the
\* replacing line and then the pasting line.  No operation is silent.  (The
\* help command prints its heading and one line per command.)
C12_OneLineOrReplacing ==
    [][/\ C12_Operation /\ ~ C12_Replaced => Len(ev'.prnt) = 1
       /\ C12_Operation /\ C12_Replaced =>
              ev'.prnt = << Line("HexPaste: replacing message to", call'.context, NoRet),
                            Line("HexPaste: pasting to", call'.context,
                                 Len(msgs'[targets'[call'.context]].lines)) >>
       /\ Verb(call') = "help" => Len(ev'.prnt) = 1 + Len(hexpaste_commands)
      ]_vars

\* a paste has just replaced a stopped Message (nothing was unhooked) and
\* printed the replacing and the pasting line
C12_Witness ==
    /\ Verb(call) = "file"
    /\ ev.unhooked = <<>>
    /\ ev.prnt = << Line("HexPaste: replacing message to", call.context, NoRet),
                    Line("HexPaste: pasting to", call.context, 2) >>
    /\ call.context \in DOMAIN targets
    /\ msgs[targets[call.context]].state = "paste"

----------------------------------------------------------------------------
(* C13 *)

\* C13: every call of the dispatcher returns hexchat.EAT_ALL and lets no
\* exception out, whether the command succeeds or fails; when the command's
\* callback (or the dispatcher's own parameter check) raises, the one line
\* printed is the message of the error, and when it returns normally what
\* it printed is what the host shows.
C13_AlwaysHandled ==
    [][call'.op = "hexpaste_cb" =>
          LET word == call'.word
              S == Store(call'.context)
              R == IF Len(word) < 2
                   THEN Raise(S, HexPasteError("HexPaste: no parameters.", NoContext))
                   ELSE CASE word[2] = "file" -> hexpaste_file_cb(S, word)
                          [] word[2] = "stop" -> hexpaste_stop_cb(S, word)
                          [] word[2] = "resume" -> hexpaste_resume_cb(S, word)
                          [] word[2] = "help" -> hexpaste_help_cb(S, word)
                          [] OTHER -> Raise(S, HexPasteError("HexPaste: unknown command.",
                                                             NoContext))
          IN  /\ ev'.ret = EAT_ALL
              /\ ev'.exc = NoError
              /\ Raised(R) => ev'.prnt = << R.exc.message >>
              /\ ~ Raised(R) => ev'.prnt = R.S.prnt /\ ev'.prnt # <<>>
      ]_vars

\* a paste with the speed 0 has just been rejected in a context whose
\* Message is pasting: the error is printed and EAT_ALL returned
C13_Witness ==
    /\ call.op = "hexpaste_cb"
    /\ call.word = <<"hexpaste", "file", "y", <<"0">>>>
    /\ ev.ret = EAT_ALL /\ ev.exc = NoError
    /\ ev.prnt = << Line("HexPaste: speed must be positive.", NoContext, NoRet) >>
    /\ call.context \in DOMAIN targets
    /\ msgs[targets[call.context]].state = "paste"

----------------------------------------------------------------------------
(* C14 *)

\* the error lines of the plugin
C14_ErrorTexts ==
    { "HexPaste: no parameters.", "HexPaste: unknown command.", "HexPaste: no filename.",
      "HexPaste: invalid speed", "HexPaste: speed must be positive.",
      "HexPaste: unable to read", "HexPaste: not pasting to",
      "HexPaste: already pasting to",
      "HexPaste: internal error, removing unknown context?!", "Traceback" }

\* C14: a command with no verb or an unknown verb, a file command with no
\* file name, with a speed that is not a number or not positive, or with
\* a file that cannot be read prints its error and changes nothing: the
\* registry, every Message (state, cursor, hook), the timers and what has
\* been said are as before.  More generally a command that ends in an
\* error line has changed nothing.
C14_FailedCommandChangesNothing ==
    [][call'.op = "hexpaste_cb" =>
          LET word == call'.word
          IN  /\ Len(word) < 2 =>
                     /\ ev'.prnt = << Line("HexPaste: no parameters.", NoContext, NoRet) >>
                     /\ NothingChanged
              /\ Len(word) >= 2 /\ word[2] \notin {"file", "stop", "resume", "help"} =>
                     /\ ev'.prnt = << Line("HexPaste: unknown command.", NoContext, NoRet) >>
                     /\ NothingChanged
              /\ Verb(call') = "file" /\ Len(word) = 2 =>
                     /\ ev'.prnt = << Line("HexPaste: no filename.", NoContext, NoRet) >>
                     /\ NothingChanged
              /\ Verb(call') = "file" /\ Len(word) >= 4
                    /\ Raised(int(Store(NoContext), word[4])) =>
                     /\ ev'.prnt = << Line("HexPaste: invalid speed", NoContext, NoRet) >>
                     /\ NothingChanged
              /\ Verb(call') = "file" /\ Len(word) >= 4
                    /\ ~ Raised(int(Store(NoContext), word[4]))
                    /\ int(Store(NoContext), word[4]).ret <= 0 =>
                     /\ ev'.prnt = << Line("HexPaste: speed must be positive.",
                                           NoContext, NoRet) >>
                     /\ NothingChanged
              /\ Verb(call') = "file" /\ Len(word) = 3 /\ word[3] \notin DOMAIN FileSystem =>
                     /\ ev'.prnt = << Line("HexPaste: unable to read", NoContext, NoRet) >>
                     /\ NothingChanged
              /\ ev'.prnt # <<>> /\ ev'.prnt[Len(ev'.prnt)].text \in C14_ErrorTexts =>
                     /\ Len(ev'.prnt) = 1
                     /\ NothingChanged
      ]_vars

\* a paste with a speed that is not a number has just been rejected in a
\* context whose Message is pasting and has said its first line: the
\* Message still has its timer
C14_Witness ==
    /\ call.op = "hexpaste_cb"
    /\ call.word = <<"hexpaste", "file", "y", <<"1", "x">>>>
    /\ ev.prnt = << Line("HexPaste: invalid speed", NoContext, NoRet) >>
    /\ call.context \in DOMAIN targets
    /\ msgs[targets[call.context]].state = "paste"
    /\ msgs[targets[call.context]].line_number = 1
    /\ said[targets[call.context]] = << <<"c">> >>
    /\ HooksOf(targets[call.context]) = { msgs[targets[call.context]].hook }

----------------------------------------------------------------------------
(* C15 *)

\* C15: for every line, paste_line says exactly one payload, in the context
\* it was given: the line up to its last character that is not whitespace,
\* or a single space when the line has no such character; the payload is
\* never of length zero.
C15_PayloadNormalised ==
    call.op = "paste_line" =>
        LET line == call.word
            kept == { n \in 1..Len(line) : line[n] \notin Whitespace }
            last == IF kept = {} THEN 0 ELSE CHOOSE n \in kept : \A k \in kept : k <= n
        IN  /\ Len(ev.cmds) = 1
            /\ ev.cmds[1].context = call.context
            /\ ev.cmds[1].say = IF last = 0 THEN <<" ">> ELSE SubSeq(line, 1, last)
            /\ Len(ev.cmds[1].say) > 0
            /\ ev.exc = NoError

\* a line of blanks ending in a newline has been said as a single space
C15_Witness ==
    /\ call.op = "paste_line"
    /\ call.word = <<" ", "\t", "\n">>
    /\ Len(ev.cmds) = 1
    /\ ev.cmds[1].say = <<" ">>

----------------------------------------------------------------------------
(* C16 *)

\* C16: a tick of a Message with no line pending, whether its destination
\* is reachable or not, says nothing and does not take the auto-stop path
\* (no stopping line, no unhook, the Message's fields untouched): it prints
\* the finished line, removes the entry of its context and returns 0, so
\* that the host drops the timer.  No entry holds the Message once that
\* tick has ended.
C16_CompletionBeforeResolve ==
    [][\A j \in DOMAIN msgs :
           TickOf(j) /\ remaining_lines(msgs[j]) = 0 =>
               /\ ev'.cmds = <<>>
               /\ ev'.unhooked = <<>>
               /\ ev'.prnt = << Line("HexPaste: finished pasting to", msgs[j].context, NoRet) >>
               /\ ev'.message = msgs[j]
               /\ ev'.ret = 0 /\ ev'.exc = NoError
               /\ msgs[j].context \notin DOMAIN targets'
               /\ \A key \in DOMAIN targets' : targets'[key] # j
               /\ call'.hook \notin DOMAIN timers'
               /\ HooksOf(j)' = {}
      ]_vars

\* a Message of two lines has just been removed by its completion tick
\* while its destination was not among the host's channels
C16_Witness ==
    /\ call.op = "tick" /\ ev.ret = 0
    /\ call.context \notin channels
    /\ ev.message.total_lines = 2 /\ ev.message.line_number = 2
    /\ ev.prnt = << Line("HexPaste: finished pasting to", call.context, NoRet) >>
    /\ call.context \notin DOMAIN targets
    /\ call.hook \notin DOMAIN timers

----------------------------------------------------------------------------
(* C17 *)

\* Message j is registered, stopped, and has no line pending
C17_IdleCompleted ==
    [j \in DOMAIN msgs |->
        /\ Registered(j)
        /\ msgs[j].state = "stop"
        /\ remaining_lines(msgs[j]) = 0]

\* C17 as stated: in every reachable state no registered Message is
\* stopped with no line pending.
C17_NoIdleCompleted ==
    \A j \in DOMAIN msgs : ~ C17_IdleCompleted[j]

\* C17 as the code has it: a registered Message comes to be stopped with
\* no line pending only by a stop command typed in its context while it
\* was pasting with no line pending (after the tick that said its last
\* line, or right after the paste of an empty file, and before its
\* completion tick); no tick leaves its Message registered and stopped
\* with no line pending.
C17_IdleCompletedOnlyByStop ==
    [][\A j \in DOMAIN msgs' :
           /\ C17_IdleCompleted[j]' /\ ~ (j \in DOMAIN msgs /\ C17_IdleCompleted[j]) =>
                  /\ Verb(call') = "stop"
                  /\ j \in DOMAIN msgs
                  /\ call'.context = msgs[j].context
                  /\ msgs[j].state = "paste"
                  /\ remaining_lines(msgs[j]) = 0
                  /\ ev'.prnt = << Line("HexPaste: stopped pasting to", call'.context, 0) >>
           /\ call'.op = "tick" /\ call'.job = j => ~ C17_IdleCompleted[j]'
      ]_vars

\* a Message of two lines that has said both has just been stopped before
\* its completion tick: it is registered, stopped, with no line pending
C17_Witness ==
    /\ Verb(call) = "stop"
    /\ ev.prnt = << Line("HexPaste: stopped pasting to", call.context, 0) >>
    /\ call.context \in DOMAIN targets
    /\ C17_IdleCompleted[targets[call.context]]
    /\ msgs[targets[call.context]].total_lines = 2
    /\ Len(said[targets[call.context]]) = 2
    /\ HooksOf(targets[call.context]) = {}

----------------------------------------------------------------------------
(* C18 *)

\* C18: an entry leaves the registry only in a tick, of the Message that
\* the entry holds, when that Message has no line pending; that tick
\* always finds its context in the registry, so remove_target never raises
\* its internal error, and the registry after it is the registry before
\* without that one entry.  A command never removes an entry and no
\* callback ever ends with the internal error.
C18_RemoveOnlyOwnEntry ==
    [][/\ \A j \in DOMAIN msgs :
              TickOf(j) /\ remaining_lines(msgs[j]) = 0 =>
                  /\ msgs[j].context \in DOMAIN targets
                  /\ targets[msgs[j].context] = j
                  /\ targets' = [key \in DOMAIN targets \ { msgs[j].context } |-> targets[key]]
                  /\ ev'.exc = NoError
       /\ \A key \in DOMAIN targets :
              key \notin DOMAIN targets' =>
                  /\ call'.op = "tick"
                  /\ call'.job = targets[key]
                  /\ remaining_lines(msgs[targets[key]]) = 0
       /\ ev'.exc.type # "HexPasteError"
       /\ \A n \in 1..Len(ev'.prnt) :
              ev'.prnt[n].text # "HexPaste: internal error, removing unknown context?!"
      ]_vars

\* the first Message has just been removed by its own completion tick
\* while the other context has the second Message registered: that entry
\* is the only one left
C18_Witness ==
    /\ call.op = "tick" /\ call.job = 1
    /\ ev.prnt = << Line("HexPaste: finished pasting to", call.context, NoRet) >>
    /\ ev.exc = NoError
    /\ call.context \notin DOMAIN targets
    /\ \E other \in HostContexts \ { call.context } :
           /\ DOMAIN targets = { other }
           /\ targets[other] = 2
           /\ msgs[2].context = other

----------------------------------------------------------------------------
(* C19 *)

\* C19: between callbacks every Message, the one whose tick has just ended
\* included, has hook None exactly when its state is 'stop', and a hook it
\* holds is a timer of the host that ticks it; the state of a Message
\* changes from 'stop' to 'paste' only in a resume typed in its context
\* (Message.paste), from 'paste' to 'stop' only in a stop typed in its
\* context (Message.stop) or in its own tick that finds the context
\* unreachable; a new Message appears only in a file command, pasting.
C19_HookIffPasting ==
    /\ [](\A j \in DOMAIN msgs :
              /\ msgs[j].state \in {"paste", "stop"}
              /\ (msgs[j].hook = None) <=> (msgs[j].state = "stop")
              /\ msgs[j].hook # None => msgs[j].hook \in HooksOf(j))
    /\ [](call.op = "tick" => ((ev.message.hook = None) <=> (ev.message.state = "stop")))
    /\ [][\A j \in DOMAIN msgs' :
              /\ j \notin DOMAIN msgs =>
                     /\ Verb(call') = "file"
                     /\ msgs'[j].state = "paste"
                     /\ msgs'[j].context = call'.context
              /\ j \in DOMAIN msgs /\ msgs[j].state = "stop" /\ msgs'[j].state = "paste" =>
                     /\ Verb(call') = "resume"
                     /\ call'.context = msgs[j].context
              /\ j \in DOMAIN msgs /\ msgs[j].state = "paste" /\ msgs'[j].state = "stop" =>
                     \/ Verb(call') = "stop" /\ call'.context = msgs[j].context
                     \/ /\ TickOf(j)
                        /\ ev'.prnt = << Line("HexPaste: stopping, target unreachable",
                                              msgs[j].context, NoRet) >>
         ]_vars

\* a resume has just hooked a new timer for a Message that had been
\* stopped: its state is 'paste' and its hook is that timer, not its first
C19_Witness ==
    /\ Verb(call) = "resume"
    /\ ev.prnt # <<>> /\ ev.prnt[1].text = "HexPaste: resumed pasting to"
    /\ call.context \in DOMAIN targets
    /\ msgs[targets[call.context]].state = "paste"
    /\ msgs[targets[call.context]].hook = nextHook - 1
    /\ msgs[targets[call.context]].hook > 1
    /\ timers[msgs[targets[call.context]].hook] = targets[call.context]

====
